---------------------------- MODULE Spec2Model ----------------------------
(***************************************************************************)
(* Model of the discrete-event offloading simulator of EdgeCloudSim's      *)
(* energy-aware scenario (scripts/energy_aware/python/quick_simulation.py):*)
(* the EdgeServer queue model and the run_simulation aggregator loop.      *)
(*                                                                         *)
(* Times and durations are Python floats in the source.  The model keeps   *)
(* them as integers counted in a fixed tick, so that every sum, difference *)
(* and comparison the code makes is exact.                                 *)
(***************************************************************************)
EXTENDS Integers, Sequences, FiniteSets, TLC

VARIABLES
    edge_servers,   \* index -> EdgeServer object (its mutable fields)
    call,           \* the last EdgeServer method call: arguments and return value
    pc,             \* where run_simulation stands
    policy,         \* run_simulation's policy argument
    device_apps,    \* device id -> index of its application in APPS
    gen,            \* the generation loop: the device it is at and its clock t
    events,         \* the event heap, as the set of the tuples in it
    cur,            \* the tuple the loop popped last
    est,            \* the estimates computed for cur (lines 178-194)
    decision,       \* the policy's decision for cur
    results,        \* the results dict
    result,         \* the dict run_simulation returns
    pol_results,    \* run_all: the dicts the earlier runs of the same group returned
    generator       \* the generator of module random, global to the process

serverVars == <<edge_servers, call>>
runVars == <<pc, policy, device_apps, gen, events, cur, est, decision, results, result,
            pol_results, generator>>
vars == <<edge_servers, call, pc, policy, device_apps, gen, events, cur, est, decision,
          results, result, pol_results, generator>>

(***************************************************************************)
(* Bounds of the EdgeServer specification.                                 *)
(***************************************************************************)
MaxQueueDepth == 2      \* max_queue of a constructed server is in 0..MaxQueueDepth
MaxTime == 3            \* current_time arguments are in 0..MaxTime
MaxProc == 4            \* processing_time arguments are in 1..MaxProc
MaxAvail == 9           \* submit_task is not called once next_available would pass this
MaxBusy == 8            \* nor once total_busy_time would pass this

Times == 0..MaxTime
ProcTimes == 1..MaxProc

(***************************************************************************)
(* Helpers: Python's built-ins on lists and numbers.                       *)
(***************************************************************************)
Max(a, b) == IF a >= b THEN a ELSE b
Min(a, b) == IF a <= b THEN a ELSE b

RECURSIVE SumSeq(_)
SumSeq(q) == IF q = <<>> THEN 0 ELSE Head(q) + SumSeq(Tail(q))

(***************************************************************************)
(* class EdgeServer                                                        *)
(***************************************************************************)
\* a call of a method as its caller sees it: the method, its arguments and
\* what it returned
Called(op, time, p, ret, failed) ==
    [op |-> op, time |-> time, p |-> p, ret |-> ret, failed |-> failed]

NewEdgeServer(max_queue) ==
    [max_queue |-> max_queue,
     queued_processing_times |-> <<>>,
     next_available |-> 0,
     total_busy_time |-> 0]

GetQueueLength(s) == Len(s.queued_processing_times)

\* faulty variant of get_utilization: the percentage is not capped
GetUtilizationUncapped(s, current_time) ==
    IF current_time <= 0
    THEN [num |-> 0, den |-> 1]
    ELSE [num |-> s.total_busy_time * 100, den |-> current_time]

\* get_utilization returns the float min(100, total_busy_time / current_time * 100);
\* the model returns it as the exact fraction num / den.
GetUtilization(s, current_time) ==
    IF current_time <= 0
    THEN [num |-> 0, den |-> 1]
    ELSE IF s.total_busy_time * 100 >= 100 * current_time
         THEN [num |-> 100, den |-> 1]
         ELSE [num |-> s.total_busy_time * 100, den |-> current_time]

EstimateWaitTime(s, current_time) ==
    LET wait == Max(0, s.next_available - current_time)
    IN  wait + SumSeq(s.queued_processing_times)

\* faulty variant of can_accept_task
CanAcceptTaskOffByOne(s) == Len(s.queued_processing_times) <= s.max_queue
CanAcceptTask(s) == Len(s.queued_processing_times) < s.max_queue

\* the loop "for pt in self.queued_processing_times: wait_time += pt"
RECURSIVE AddQueued(_, _)
AddQueued(wait_time, q) ==
    IF q = <<>> THEN wait_time ELSE AddQueued(wait_time + Head(q), Tail(q))

SubmitWaitTime(s, current_time) ==
    AddQueued(Max(0, s.next_available - current_time), s.queued_processing_times)

\* submit_task returns the pair (total_time, failed); the model adds the server
\* as the call leaves it.  Lines 108-109: the rejection, no field assigned.
SubmitRejected(s) == [ret |-> "None", failed |-> TRUE, server |-> s]

\* lines 111-121: the admission
SubmitAdmitted(s, current_time, processing_time) ==
    LET total_time == SubmitWaitTime(s, current_time) + processing_time
    IN  [ret |-> total_time, failed |-> FALSE,
         server |-> [s EXCEPT
             !.queued_processing_times = Append(@, processing_time),
             !.next_available = current_time + total_time,
             !.total_busy_time = @ + processing_time]]

\* faulty variant of submit_task: its own test keeps one slot of the queue free
SubmitTaskKeepsOneFree(s, current_time, processing_time) ==
    IF Len(s.queued_processing_times) + 1 >= s.max_queue
    THEN SubmitRejected(s)
    ELSE SubmitAdmitted(s, current_time, processing_time)

\* faulty variants of submit_task
SubmitTaskNoCheck(s, current_time, processing_time) ==
    SubmitAdmitted(s, current_time, processing_time)
SubmitTaskRejectCounts(s, current_time, processing_time) ==
    IF ~CanAcceptTask(s)
    THEN [SubmitRejected(s) EXCEPT !.server.total_busy_time = @ + processing_time]
    ELSE SubmitAdmitted(s, current_time, processing_time)
SubmitTaskNoBusy(s, current_time, processing_time) ==
    IF ~CanAcceptTask(s)
    THEN SubmitRejected(s)
    ELSE [SubmitAdmitted(s, current_time, processing_time)
             EXCEPT !.server.total_busy_time = s.total_busy_time]
SubmitTaskNoWait(s, current_time, processing_time) ==
    IF ~CanAcceptTask(s)
    THEN SubmitRejected(s)
    ELSE [SubmitAdmitted(s, current_time, processing_time)
             EXCEPT !.ret = processing_time,
                    !.server.next_available = current_time + processing_time]

SubmitTask(s, current_time, processing_time) ==
    IF ~CanAcceptTask(s)
    THEN SubmitRejected(s)
    ELSE SubmitAdmitted(s, current_time, processing_time)

\* update, first loop: pop the head while the queue is non-empty and
\* next_available <= current_time
RECURSIVE PopFinished(_, _, _)
PopFinished(q, next_available, current_time) ==
    IF q # <<>> /\ next_available <= current_time
    THEN PopFinished(Tail(q), next_available, current_time)
    ELSE q

\* faulty variant of the second loop: a head only partly served is left whole
RECURSIVE ConsumeElapsedWholeOnly(_, _)
ConsumeElapsedWholeOnly(q, elapsed) ==
    IF q # <<>> /\ elapsed > 0 /\ elapsed >= Head(q)
    THEN ConsumeElapsedWholeOnly(Tail(q), elapsed - Head(q))
    ELSE q

\* update, second loop: consume elapsed time from the head of the queue
RECURSIVE ConsumeElapsed(_, _)
ConsumeElapsed(q, elapsed) ==
    IF q # <<>> /\ elapsed > 0
    THEN IF elapsed >= Head(q)
         THEN ConsumeElapsed(Tail(q), elapsed - Head(q))
         ELSE <<Head(q) - elapsed>> \o Tail(q)
    ELSE q

\* faulty variant of update: an emptied server restarts its clock
UpdateResetsAvail(s, current_time) ==
    [s EXCEPT !.queued_processing_times = <<>>, !.next_available = current_time]

Update(s, current_time) ==
    LET q1 == PopFinished(s.queued_processing_times, s.next_available, current_time)
        elapsed == current_time -
                   (IF q1 # <<>> THEN s.next_available - SumSeq(q1) ELSE current_time)
    IN  [s EXCEPT !.queued_processing_times = ConsumeElapsed(q1, elapsed)]

(***************************************************************************)
(* ServerSpec: one EdgeServer object under any sequence of method calls.   *)
(***************************************************************************)
Server == edge_servers[0]

\* no run_simulation is going on while the methods of one server are exercised
NoRun ==
    /\ pc = "methods"
    /\ policy = "None"
    /\ device_apps = <<>>
    /\ gen = "None"
    /\ events = {}
    /\ cur = "None"
    /\ est = "None"
    /\ decision = "None"
    /\ results = "None"
    /\ result = "None"
    /\ pol_results = <<>>
    /\ generator = [seeded_by |-> 0, drawn |-> 0]

ServerInit ==
    /\ \E mq \in 0..MaxQueueDepth : edge_servers = [i \in {0} |-> NewEdgeServer(mq)]
    /\ call = Called("__init__", 0, 0, "None", FALSE)
    /\ NoRun

SubmitTaskCall ==
    \E t \in Times, p \in ProcTimes :
        LET r == SubmitTask(Server, t, p)
        IN  /\ r.server.next_available <= MaxAvail
            /\ r.server.total_busy_time <= MaxBusy
            /\ edge_servers' = [edge_servers EXCEPT ![0] = r.server]
            /\ call' = Called("submit_task", t, p, r.ret, r.failed)
            /\ UNCHANGED runVars

UpdateCall ==
    \E t \in Times :
        /\ edge_servers' = [edge_servers EXCEPT ![0] = Update(Server, t)]
        /\ call' = Called("update", t, 0, "None", FALSE)
        /\ UNCHANGED runVars

EstimateWaitTimeCall ==
    \E t \in Times :
        /\ call' = Called("estimate_wait_time", t, 0, EstimateWaitTime(Server, t), FALSE)
        /\ UNCHANGED <<edge_servers, runVars>>

CanAcceptTaskCall ==
    /\ call' = Called("can_accept_task", 0, 0, CanAcceptTask(Server), FALSE)
    /\ UNCHANGED <<edge_servers, runVars>>

GetUtilizationCall ==
    \E t \in Times :
        /\ call' = Called("get_utilization", t, 0, GetUtilization(Server, t), FALSE)
        /\ UNCHANGED <<edge_servers, runVars>>

ServerNext ==
    \/ SubmitTaskCall
    \/ UpdateCall
    \/ EstimateWaitTimeCall
    \/ CanAcceptTaskCall
    \/ GetUtilizationCall

ServerSpec == ServerInit /\ [][ServerNext]_vars

(***************************************************************************)
(* run_simulation(policy, num_devices, cfg).                               *)
(*                                                                         *)
(* One tick is 10 ms; powers are in tenths of a watt, so energies are in   *)
(* millijoules; alpha, beta in tenths; delay_sens in hundredths.           *)
(*                                                                         *)
(* cfg is the caller's SimConfig.  The model runs with a short horizon,    *)
(* two edge servers of queue depth 1, and capacities for which every       *)
(* estimate of lines 178-194 is a whole number of ticks.                   *)
(***************************************************************************)
DeviceType == {"MOBILE", "EDGE", "CLOUD"}

cfg ==
    [simulation_time |-> 10,
     warm_up_period |-> 2,
     mobile_power_idle |-> 3,
     mobile_power_active |-> 18,
     mobile_power_transmit |-> 12,
     mobile_mips |-> 5000,
     edge_mips |-> 10000,
     cloud_mips |-> 20000,
     wlan_bandwidth |-> 100,
     wan_bandwidth |-> 50,
     wan_propagation_delay |-> 8,
     num_edge_servers |-> 2,
     max_edge_queue |-> 1,
     alpha |-> 6,
     beta |-> 4]

AppType(name, usage_pct, delay_sens, max_delay, interarrival, upload_kb, download_kb, task_mi) ==
    [name |-> name, usage_pct |-> usage_pct, delay_sens |-> delay_sens,
     max_delay |-> max_delay, interarrival |-> interarrival,
     upload_kb |-> upload_kb, download_kb |-> download_kb, task_mi |-> task_mi]

APPS ==
    << AppType("REALTIME_AR", 35, 95, 8, 150, 80, 150, 600),
       AppType("INTERACTIVE_GAMING", 25, 75, 25, 250, 40, 100, 1000),
       AppType("IMAGE_PROCESSING", 25, 35, 150, 600, 300, 80, 3000),
       AppType("DATA_SYNC", 15, 15, 500, 1200, 800, 150, 800) >>

POLICIES == {"EADC", "GREEDY_ENERGY", "GREEDY_DEADLINE", "RANDOM", "EDGE_ONLY"}

\* num_devices: a device count of run_all.  Of these devices, those outside
\* ActiveDevices draw a first arrival at or after cfg.simulation_time and put
\* nothing on the heap.
NumDevices == 200
ActiveDevices == {0, 1}

MaxEvents == 3          \* the heap holds at most this many events

(***************************************************************************)
(* The outcomes of random.random() the model draws, per call site.         *)
(***************************************************************************)
\* line 149: r = random.random() * 100
AppDraws == {35, 36}
\* line 159: t = random.random() * app.interarrival; cfg.simulation_time stands
\* for any first arrival at or after the horizon
OffsetDraws(app) == {t \in {0, 2, cfg.simulation_time} : t < app.interarrival}
\* line 161: task_len = app.task_mi * (0.7 + random.random() * 0.6)
TaskLenDraws(app) ==
    {x \in {app.task_mi} : 70 * app.task_mi <= 100 * x /\ 100 * x < 130 * app.task_mi}
\* line 162: data_size = (upload_kb + download_kb) * (0.7 + random.random() * 0.6)
DataSizeDraws(app) ==
    LET nominal == app.upload_kb + app.download_kb
    IN  {x \in {125, 250} : 70 * nominal <= 100 * x /\ 100 * x < 130 * nominal}
\* line 163: deadline = app.max_delay * (0.8 + random.random() * 0.4)
DeadlineDraws(app) ==
    {x \in {app.max_delay} : 80 * app.max_delay <= 100 * x /\ 100 * x < 120 * app.max_delay}
\* line 165: t += max(0.05, -app.interarrival * np.log(1 - random.random() + 0.001));
\* the logarithm is at most log(1.001) and at least log(0.001) > -7
MinGap == 5
\* faulty variant of line 165: the gap is not kept at or above 0.05
GapDrawsNoFloor(app) ==
    {g \in {0, 7, cfg.simulation_time} : g < 7 * app.interarrival}
GapDraws(app) ==
    {Max(MinGap, g) : g \in {x \in {0, 7, cfg.simulation_time} : x < 7 * app.interarrival}}
\* line 197: r = random.random(), in hundredths
PolicyDraws == {0, 32, 33, 65, 66, 99}
\* lines 249-271: 0.9 + random.random() * 0.2, in hundredths
TimeJitterDraws == {90, 105}
EnergyJitterDraws == {100}
\* line 275: random.random() < failure_prob, with 0 < failure_prob < 1
FailureDraws == BOOLEAN

(***************************************************************************)
(* Lines 147-155: the application of a device.                             *)
(***************************************************************************)
\* faulty variant of lines 150-155: cum is not accumulated
RECURSIVE WalkAppsShareOnly(_, _, _)
WalkAppsShareOnly(r, cum, i) ==
    IF i > Len(APPS) THEN 0
    ELSE IF r <= APPS[i].usage_pct THEN i
    ELSE WalkAppsShareOnly(r, cum, i + 1)

RECURSIVE WalkApps(_, _, _)
WalkApps(r, cum, i) ==
    IF i > Len(APPS) THEN 0          \* no break: device_apps gets no entry
    ELSE IF r <= cum + APPS[i].usage_pct THEN i
    ELSE WalkApps(r, cum + APPS[i].usage_pct, i + 1)

AppFor(r) == WalkApps(r, 0, 1)

(***************************************************************************)
(* Lines 167, 178-194: the estimates for an event, given the servers.      *)
(***************************************************************************)
ServerIds == 0..(cfg.num_edge_servers - 1)

\* faulty variant of lines 183-184: the highest index among those of least key
BestServerIdxHighest(servers, t) ==
    CHOOSE i \in DOMAIN servers :
        \A j \in DOMAIN servers :
            \/ EstimateWaitTime(servers[i], t) < EstimateWaitTime(servers[j], t)
            \/ /\ EstimateWaitTime(servers[i], t) = EstimateWaitTime(servers[j], t)
               /\ i >= j

\* min(range(n), key=...): the lowest index among those of least key
BestServerIdx(servers, t) ==
    CHOOSE i \in DOMAIN servers :
        \A j \in DOMAIN servers :
            \/ EstimateWaitTime(servers[i], t) < EstimateWaitTime(servers[j], t)
            \/ /\ EstimateWaitTime(servers[i], t) = EstimateWaitTime(servers[j], t)
               /\ i <= j

\* load_factor = 1.0 + (num_devices / 200) * 0.5, as the fraction num / den
LoadFactor == [num |-> 400 + NumDevices, den |-> 400]

Estimates(ev, servers) ==
    LET local_time == (ev.task_len * 100 * LoadFactor.num)
                        \div (cfg.mobile_mips * LoadFactor.den)
        wlan_delay == (ev.data_size * 8 * 100) \div (cfg.wlan_bandwidth * 1000)
        edge_processing == (ev.task_len * 100) \div cfg.edge_mips
        best_server_idx == BestServerIdx(servers, ev.t)
        edge_queue_delay == EstimateWaitTime(servers[best_server_idx], ev.t)
        wan_delay == (ev.data_size * 8 * 100) \div (cfg.wan_bandwidth * 1000)
                       + cfg.wan_propagation_delay
        cloud_processing == (ev.task_len * 100) \div cfg.cloud_mips
    IN  [local_time |-> local_time,
         wlan_delay |-> wlan_delay,
         edge_processing |-> edge_processing,
         best_server_idx |-> best_server_idx,
         edge_queue_delay |-> edge_queue_delay,
         edge_time |-> wlan_delay * 2 + edge_processing + edge_queue_delay,
         wan_delay |-> wan_delay,
         cloud_processing |-> cloud_processing,
         cloud_time |-> wan_delay * 2 + cloud_processing,
         local_energy |-> cfg.mobile_power_active * local_time,
         edge_energy |-> cfg.mobile_power_transmit * wlan_delay * 2
                           + cfg.mobile_power_idle * (edge_processing + edge_queue_delay),
         cloud_energy |-> cfg.mobile_power_transmit * wan_delay * 2
                            + cfg.mobile_power_idle * cloud_processing]

\* the divisions above leave no remainder for the events the model draws
WholeTicks(ev) ==
    /\ (ev.task_len * 100 * LoadFactor.num) % (cfg.mobile_mips * LoadFactor.den) = 0
    /\ (ev.data_size * 8 * 100) % (cfg.wlan_bandwidth * 1000) = 0
    /\ (ev.task_len * 100) % cfg.edge_mips = 0
    /\ (ev.data_size * 8 * 100) % (cfg.wan_bandwidth * 1000) = 0
    /\ (ev.task_len * 100) % cfg.cloud_mips = 0

(***************************************************************************)
(* Lines 196-246: the five policies.                                       *)
(***************************************************************************)
\* a / b <= c / d for a, c >= 0 and b, d > 0, by continued fractions: no
\* product is formed, so no intermediate value outgrows the operands
RECURSIVE FracLeq(_, _, _, _)
FracLeq(a, b, c, d) ==
    LET qa == a \div b
        qc == c \div d
        ra == a % b
        rc == c % d
    IN  IF qa # qc THEN qa < qc
        ELSE IF ra = 0 THEN TRUE
        ELSE IF rc = 0 THEN FALSE
        ELSE FracLeq(d, rc, b, ra)

\* A float that may be float('inf'): the value num * fn / fd when inf is FALSE.
Finite(num) == [inf |-> FALSE, num |-> num, fn |-> 1, fd |-> 1]
Infinite == [inf |-> TRUE, num |-> 0, fn |-> 1, fd |-> 1]

FloatLeq(x, y) ==
    IF y.inf THEN TRUE
    ELSE IF x.inf THEN FALSE
    ELSE IF y.num = 0 THEN x.num = 0
    ELSE FracLeq(x.num, y.num, y.fn * x.fd, x.fn * y.fd)

\* min(d, key=d.get) over a dict with keys MOBILE, EDGE, CLOUD in this order:
\* the first key of least value
MinKeyFloat(mobile, edge, cloud) ==
    IF FloatLeq(mobile, edge) /\ FloatLeq(mobile, cloud) THEN "MOBILE"
    ELSE IF FloatLeq(edge, cloud) THEN "EDGE"
    ELSE "CLOUD"

MinKey(mobile, edge, cloud) ==
    IF mobile <= edge /\ mobile <= cloud THEN "MOBILE"
    ELSE IF edge <= cloud THEN "EDGE"
    ELSE "CLOUD"

RandomDecision(r) ==
    IF r < 33 THEN "MOBILE" ELSE IF r < 66 THEN "EDGE" ELSE "CLOUD"

GreedyEnergyDecision(e) == MinKey(e.local_energy, e.edge_energy, e.cloud_energy)

\* faulty variant of GREEDY_DEADLINE: max in place of min
GreedyDeadlineSlowest(e) ==
    IF e.local_time > e.edge_time /\ e.local_time > e.cloud_time THEN "MOBILE"
    ELSE IF e.edge_time > e.cloud_time THEN "EDGE"
    ELSE "CLOUD"

GreedyDeadlineDecision(e) == MinKey(e.local_time, e.edge_time, e.cloud_time)

\* faulty variant of lines 207-208: EDGE whatever the best server's queue
EdgeOnlyDecisionAlwaysEdge(e, servers) == "EDGE"
EdgeOnlyDecision(e, servers) ==
    IF CanAcceptTask(servers[e.best_server_idx]) THEN "EDGE" ELSE "CLOUD"

\* np.mean([s.get_utilization(t) for s in edge_servers]) as a fraction; every
\* get_utilization(t) is a fraction over 1 or over t
AvgUtil(servers, t) ==
    LET den == IF t > 0 THEN t ELSE 1
        Scaled(i) == LET u == GetUtilization(servers[i], t)
                     IN  u.num * (den \div u.den)
        RECURSIVE Total(_)
        Total(S) == IF S = {} THEN 0
                    ELSE LET i == CHOOSE x \in S : TRUE
                         IN  Scaled(i) + Total(S \ {i})
    IN  [num |-> Total(DOMAIN servers), den |-> den * Cardinality(DOMAIN servers)]

\* faulty variant of lines 215-237: a full best server keeps its edge score
EADCScoresIgnoreQueue(ev, e, servers) ==
    LET delay_sens == APPS[ev.app].delay_sens
        adaptive_alpha == cfg.alpha * (1000 + delay_sens * 5)   \* in 1/10000
        adaptive_beta == cfg.beta * (1000 - delay_sens * 3)     \* in 1/10000
        max_time == Max(Max(e.local_time, e.edge_time), Max(e.cloud_time, ev.deadline))
        max_energy == Max(Max(e.local_energy, e.edge_energy), e.cloud_energy)
        dt == IF max_time > 0 THEN max_time ELSE 1
        de == IF max_energy > 0 THEN max_energy ELSE 1
        calc_score(time, energy, meets_deadline) ==
            IF ~meets_deadline THEN Infinite
            ELSE Finite((IF max_time > 0 THEN adaptive_alpha * time * de ELSE 0)
                        + (IF max_energy > 0 THEN adaptive_beta * energy * dt ELSE 0))
        local_score == calc_score(e.local_time, e.local_energy, e.local_time <= ev.deadline)
        edge_score0 == calc_score(e.edge_time, e.edge_energy, e.edge_time <= ev.deadline)
        cloud_score == calc_score(e.cloud_time, e.cloud_energy, e.cloud_time <= ev.deadline)
        avg_util == AvgUtil(servers, ev.t)
        edge_score1 ==
            IF avg_util.num > 70 * avg_util.den /\ ~edge_score0.inf
            THEN [edge_score0 EXCEPT !.fn = avg_util.num - 20 * avg_util.den,
                                     !.fd = 50 * avg_util.den]
            ELSE edge_score0
        edge_score == edge_score1
    IN  [MOBILE |-> local_score, EDGE |-> edge_score, CLOUD |-> cloud_score]

\* lines 215-237: the three scores.  The finite scores are kept over their
\* common denominator 10000 * max_time * max_energy.
EADCScores(ev, e, servers) ==
    LET delay_sens == APPS[ev.app].delay_sens
        adaptive_alpha == cfg.alpha * (1000 + delay_sens * 5)   \* in 1/10000
        adaptive_beta == cfg.beta * (1000 - delay_sens * 3)     \* in 1/10000
        max_time == Max(Max(e.local_time, e.edge_time), Max(e.cloud_time, ev.deadline))
        max_energy == Max(Max(e.local_energy, e.edge_energy), e.cloud_energy)
        dt == IF max_time > 0 THEN max_time ELSE 1
        de == IF max_energy > 0 THEN max_energy ELSE 1
        calc_score(time, energy, meets_deadline) ==
            IF ~meets_deadline THEN Infinite
            ELSE Finite((IF max_time > 0 THEN adaptive_alpha * time * de ELSE 0)
                        + (IF max_energy > 0 THEN adaptive_beta * energy * dt ELSE 0))
        local_score == calc_score(e.local_time, e.local_energy, e.local_time <= ev.deadline)
        edge_score0 == calc_score(e.edge_time, e.edge_energy, e.edge_time <= ev.deadline)
        cloud_score == calc_score(e.cloud_time, e.cloud_energy, e.cloud_time <= ev.deadline)
        avg_util == AvgUtil(servers, ev.t)
        edge_score1 ==
            IF avg_util.num > 70 * avg_util.den /\ ~edge_score0.inf
            THEN [edge_score0 EXCEPT !.fn = avg_util.num - 20 * avg_util.den,
                                     !.fd = 50 * avg_util.den]
            ELSE edge_score0
        edge_score == IF ~CanAcceptTask(servers[e.best_server_idx])
                      THEN Infinite ELSE edge_score1
    IN  [MOBILE |-> local_score, EDGE |-> edge_score, CLOUD |-> cloud_score]

\* lines 243-245: the times the fallback compares
FallbackTimes(e, servers) ==
    [MOBILE |-> Finite(e.local_time),
     EDGE |-> IF ~CanAcceptTask(servers[e.best_server_idx])
              THEN Infinite ELSE Finite(e.edge_time),
     CLOUD |-> Finite(e.cloud_time)]

\* faulty variant of lines 242-246: the fallback keeps a full server's edge time
EADCDecisionFallbackKeepsEdge(ev, e, servers) ==
    LET scores == EADCScores(ev, e, servers)
        first == MinKeyFloat(scores.MOBILE, scores.EDGE, scores.CLOUD)
    IN  IF scores[first].inf
        THEN MinKey(e.local_time, e.edge_time, e.cloud_time)
        ELSE first

\* faulty variant of lines 242-246: the fallback compares energies, not times
EADCDecisionFallbackLeastEnergy(ev, e, servers) ==
    LET scores == EADCScores(ev, e, servers)
        first == MinKeyFloat(scores.MOBILE, scores.EDGE, scores.CLOUD)
    IN  IF scores[first].inf
        THEN MinKeyFloat(Finite(e.local_energy),
                         IF ~CanAcceptTask(servers[e.best_server_idx])
                         THEN Infinite ELSE Finite(e.edge_energy),
                         Finite(e.cloud_energy))
        ELSE first

\* faulty variant of lines 239-246: no fallback, the event may stay undecided
EADCDecisionNoFallback(ev, e, servers) ==
    LET scores == EADCScores(ev, e, servers)
        first == MinKeyFloat(scores.MOBILE, scores.EDGE, scores.CLOUD)
    IN  IF scores[first].inf THEN "None" ELSE first

\* lines 239-246
EADCDecision(ev, e, servers) ==
    LET scores == EADCScores(ev, e, servers)
        first == MinKeyFloat(scores.MOBILE, scores.EDGE, scores.CLOUD)
    IN  IF scores[first].inf
        THEN MinKeyFloat(Finite(e.local_time),
                         IF ~CanAcceptTask(servers[e.best_server_idx])
                         THEN Infinite ELSE Finite(e.edge_time),
                         Finite(e.cloud_time))
        ELSE first

PolicyDecision(pol, ev, e, servers, r) ==
    IF pol = "RANDOM" THEN RandomDecision(r)
    ELSE IF pol = "GREEDY_ENERGY" THEN GreedyEnergyDecision(e)
    ELSE IF pol = "GREEDY_DEADLINE" THEN GreedyDeadlineDecision(e)
    ELSE IF pol = "EDGE_ONLY" THEN EdgeOnlyDecision(e, servers)
    ELSE EADCDecision(ev, e, servers)

(***************************************************************************)
(* Lines 136-298: run_simulation, step by step.                            *)
(***************************************************************************)
\* before the first heappop the loop's t, device_id, ... are unbound
NoEvent == [t |-> -1, d |-> -1, app |-> 0, task_len |-> 0, data_size |-> 0, deadline |-> 0]
NoEstimates == Estimates(NoEvent, [i \in {0} |-> NewEdgeServer(0)])

\* The generator of module random: the run whose random.seed() set its state
\* last (lines 137-138; 0 for a seeding that is not this process's run in
\* hand), and the number of values random.random() has returned since.
Seeded(run) == [seeded_by |-> run, drawn |-> 0]

\* the generator after n calls of random.random()
Drawn(n) == [generator EXCEPT !.drawn = @ + n]

\* lines 136-157 for the SimConfig config: nothing looks at config before the
\* servers are built from it
RunInitFor(config) ==
    /\ policy \in POLICIES
    /\ edge_servers = [i \in ServerIds |-> NewEdgeServer(config.max_edge_queue)]
    /\ call = Called("__init__", 0, 0, "None", FALSE)
    /\ results = [service_times |-> <<>>, energies |-> <<>>, deadline_met |-> <<>>,
                  failed |-> 0, local |-> 0, edge |-> 0, cloud |-> 0, edge_rejected |-> 0]
    /\ device_apps = <<>>
    /\ gen = [d |-> 0, started |-> FALSE, t |-> 0]
    /\ events = {}
    /\ cur = NoEvent
    /\ est = NoEstimates
    /\ decision = "None"
    /\ result = "None"
    /\ pol_results = <<>>
    /\ generator = Seeded(1)
    /\ pc = "assign"

RunInit == RunInitFor(cfg)

LastActive == CHOOSE d \in ActiveDevices : \A x \in ActiveDevices : x <= d

\* lines 148-155, one iteration of "for d in range(num_devices)"
AssignApp ==
    /\ pc = "assign"
    /\ \E r \in AppDraws :
        device_apps' = IF AppFor(r) = 0 THEN device_apps
                       ELSE (gen.d :> AppFor(r)) @@ device_apps
    /\ IF gen.d = LastActive
       THEN /\ pc' = "generate"
            /\ gen' = [d |-> 0, started |-> FALSE, t |-> 0]
       ELSE /\ pc' = "assign"
            /\ gen' = [gen EXCEPT !.d = @ + 1]
    /\ generator' = Drawn(1)
    /\ UNCHANGED <<edge_servers, call, policy, events, cur, est, decision, results, result,
                   pol_results>>

\* the heap is full: no further arrival may fall inside the horizon
HeapFull(evs) == Cardinality(evs) >= MaxEvents

\* line 159, for the device the loop of line 158 is at
StartDevice ==
    /\ pc = "generate"
    /\ gen.d \in DOMAIN device_apps
    /\ ~gen.started
    /\ \E t \in OffsetDraws(APPS[device_apps[gen.d]]) :
        /\ HeapFull(events) => t >= cfg.simulation_time
        /\ gen' = [gen EXCEPT !.started = TRUE, !.t = t]
    /\ generator' = Drawn(1)
    /\ UNCHANGED <<edge_servers, call, pc, policy, device_apps, events, cur, est, decision,
                   results, result, pol_results>>

\* heapq orders the tuples (t, d, app, ...) by t, then by d
TupleLess(a, b) == a.t < b.t \/ (a.t = b.t /\ a.d < b.d)

\* lines 160-165, one iteration of "while t < cfg.simulation_time"
PushEvent ==
    /\ pc = "generate"
    /\ gen.started
    /\ gen.t < cfg.simulation_time
    /\ LET app == APPS[device_apps[gen.d]]
       IN  \E task_len \in TaskLenDraws(app), data_size \in DataSizeDraws(app),
              deadline \in DeadlineDraws(app), gap \in GapDraws(app) :
            LET ev == [t |-> gen.t, d |-> gen.d, app |-> device_apps[gen.d],
                       task_len |-> task_len, data_size |-> data_size,
                       deadline |-> deadline]
            IN  /\ WholeTicks(ev)
                /\ events' = events \cup {ev}
                /\ gen' = [gen EXCEPT !.t = @ + gap]
                /\ HeapFull(events') => gen'.t >= cfg.simulation_time
    /\ generator' = Drawn(4)
    /\ UNCHANGED <<edge_servers, call, pc, policy, device_apps, cur, est, decision,
                   results, result, pol_results>>

\* line 160 false: on to the next device, or to the loop of line 169
EndDevice ==
    /\ pc = "generate"
    /\ gen.d \notin DOMAIN device_apps \/ (gen.started /\ gen.t >= cfg.simulation_time)
    /\ IF gen.d = LastActive
       THEN pc' = "pop"
       ELSE pc' = "generate"
    /\ gen' = [d |-> gen.d + 1, started |-> FALSE, t |-> 0]
    /\ UNCHANGED <<edge_servers, call, policy, device_apps, events, cur, est, decision,
                   results, result, pol_results, generator>>

\* faulty variant of heappop: takes the greatest tuple
HeapPopLast(evs) == CHOOSE e \in evs : \A x \in evs : x = e \/ TupleLess(x, e)
\* heapq.heappop(events): the least tuple
HeapPop(evs) == CHOOSE e \in evs : \A x \in evs : x = e \/ TupleLess(e, x)

\* lines 172-173
UpdateAll(servers, t) == [i \in DOMAIN servers |-> Update(servers[i], t)]

\* lines 169-176: pop, advance every server, skip the warm-up period
PopEvent ==
    /\ pc = "pop"
    /\ events # {}
    /\ LET ev == HeapPop(events)
       IN  /\ cur' = ev
           /\ events' = events \ {ev}
           /\ edge_servers' = UpdateAll(edge_servers, ev.t)
           /\ call' = Called("update", ev.t, 0, "None", FALSE)
           /\ pc' = IF ev.t < cfg.warm_up_period THEN "pop" ELSE "decide"
    /\ UNCHANGED <<policy, device_apps, gen, est, decision, results, result, pol_results,
                   generator>>

\* faulty variant of the decision: admits the task to the best server while
\* deciding
DecideAndAdmit ==
    /\ pc = "decide"
    /\ est' = Estimates(cur, edge_servers)
    /\ \E r \in PolicyDraws :
        decision' = PolicyDecision(policy, cur, est', edge_servers, r)
    /\ pc' = "commit"
    /\ edge_servers' = [edge_servers EXCEPT ![est'.best_server_idx] =
                            SubmitTask(@, cur.t, est'.edge_processing).server]
    /\ generator' = Drawn(IF policy = "RANDOM" THEN 1 ELSE 0)
    /\ UNCHANGED <<call, policy, device_apps, gen, events, cur, results, result, pol_results>>

\* lines 178-246: the estimates and the policy's decision
Decide ==
    /\ pc = "decide"
    /\ est' = Estimates(cur, edge_servers)
    /\ \E r \in PolicyDraws :
        decision' = PolicyDecision(policy, cur, est', edge_servers, r)
    /\ pc' = "commit"
    /\ generator' = Drawn(IF policy = "RANDOM" THEN 1 ELSE 0)
    /\ UNCHANGED <<edge_servers, call, policy, device_apps, gen, events, cur, results,
                   result, pol_results>>

\* np.mean(xs) if xs else 0, as the fraction num / den
Mean(xs) == IF xs = <<>> THEN [num |-> 0, den |-> 1]
            ELSE [num |-> SumSeq(xs), den |-> Len(xs)]

\* faulty variant of the counters: a re-routed task is not counted as rejected
CountedNoRejection(res, final, rerouted) ==
    [res EXCEPT
        !.local = IF final = "MOBILE" THEN @ + 1 ELSE @,
        !.edge = IF final = "EDGE" THEN @ + 1 ELSE @,
        !.cloud = IF final = "CLOUD" THEN @ + 1 ELSE @]

\* lines 251, 258-259, 268, 272: the counters of the location the task ran at
Counted(res, final, rerouted) ==
    [res EXCEPT
        !.local = IF final = "MOBILE" THEN @ + 1 ELSE @,
        !.edge = IF final = "EDGE" THEN @ + 1 ELSE @,
        !.cloud = IF final = "CLOUD" THEN @ + 1 ELSE @,
        !.edge_rejected = IF rerouted THEN @ + 1 ELSE @]

\* faulty variant of the failure draw: a failed task leaves its samples behind
RecordedFailureKeepsSample(res, fails, actual_time, energy, deadline) ==
    [res EXCEPT
        !.failed = IF fails THEN @ + 1 ELSE @,
        !.service_times = Append(@, actual_time),
        !.energies = Append(@, energy),
        !.deadline_met = Append(@, IF actual_time <= deadline * 100 THEN 1 ELSE 0)]

\* lines 274-280: the failure draw, and the samples of a task that did not fail
Recorded(res, fails, actual_time, energy, deadline) ==
    IF fails
    THEN [res EXCEPT !.failed = @ + 1]
    ELSE [res EXCEPT
            !.service_times = Append(@, actual_time),
            !.energies = Append(@, energy),
            !.deadline_met = Append(@, IF actual_time <= deadline * 100 THEN 1 ELSE 0)]

\* lines 248-280: carry the decision out and record the outcome.  The samples
\* are in hundredths of a tick and of a millijoule.
Commit ==
    /\ pc = "commit"
    /\ \E jt \in TimeJitterDraws, je \in EnergyJitterDraws, fails \in FailureDraws :
        LET best == edge_servers[est.best_server_idx]
            rerouted == decision = "EDGE" /\ ~CanAcceptTask(best)
            submitted == decision = "EDGE" /\ CanAcceptTask(best)
            sub == SubmitTask(best, cur.t, est.edge_processing)
            final == IF rerouted THEN "CLOUD" ELSE decision
            actual_time ==
                IF final = "MOBILE" THEN est.local_time * jt
                ELSE IF final = "EDGE" THEN (est.wlan_delay * 2 + sub.ret) * jt
                ELSE est.cloud_time * jt
            energy ==
                IF final = "MOBILE" THEN est.local_energy * je
                ELSE IF final = "EDGE" THEN est.edge_energy * je
                ELSE est.cloud_energy * je
            counted == Counted(results, final, rerouted)
        IN  /\ decision' = final
            /\ IF submitted
               THEN /\ edge_servers' = [edge_servers EXCEPT ![est.best_server_idx] =
                                            sub.server]
                    /\ call' = Called("submit_task", cur.t, est.edge_processing,
                                      sub.ret, sub.failed)
               ELSE UNCHANGED <<edge_servers, call>>
            /\ IF submitted /\ sub.failed
               THEN /\ results' = [results EXCEPT !.failed = @ + 1]
                    /\ generator' = generator
               ELSE /\ results' = Recorded(counted, fails, actual_time, energy,
                                           cur.deadline)
                    /\ generator' = Drawn(3)
    /\ pc' = "pop"
    /\ UNCHANGED <<policy, device_apps, gen, events, cur, est, result, pol_results>>

\* lines 282-298: the heap is empty
Finish ==
    /\ pc = "pop"
    /\ events = {}
    /\ result' =
        [policy |-> policy,
         num_devices |-> NumDevices,
         total_tasks |-> Len(results.service_times) + results.failed,
         failed_tasks |-> results.failed,
         avg_service_time |-> Mean(results.service_times),
         avg_energy |-> Mean(results.energies),
         deadline_rate |-> Mean(results.deadline_met),
         avg_edge_util |-> AvgUtil(edge_servers, cfg.simulation_time),
         local |-> results.local,
         edge |-> results.edge,
         cloud |-> results.cloud,
         edge_rejected |-> results.edge_rejected]
    /\ pc' = "done"
    /\ UNCHANGED <<edge_servers, call, policy, device_apps, gen, events, cur, est,
                   decision, results, pol_results, generator>>

Next ==
    \/ AssignApp
    \/ StartDevice
    \/ PushEvent
    \/ EndDevice
    \/ PopEvent
    \/ Decide
    \/ Commit
    \/ Finish

Spec == RunInit /\ [][Next]_vars

(***************************************************************************)
(* run_simulation called with a SimConfig whose queue capacity is zero.    *)
(***************************************************************************)
ZeroQueueCfg == [cfg EXCEPT !.max_edge_queue = 0]

ZeroQueueInit == RunInitFor(ZeroQueueCfg)

ZeroQueueSpec == ZeroQueueInit /\ [][Next]_vars

(***************************************************************************)
(* run_simulation called with a SimConfig whose servers queue two tasks,   *)
(* so that a task is admitted behind work that is still queued.            *)
(***************************************************************************)
DeepQueueCfg == [cfg EXCEPT !.max_edge_queue = 2]

DeepQueueInit == RunInitFor(DeepQueueCfg)

DeepQueueSpec == DeepQueueInit /\ [][Next]_vars

(***************************************************************************)
(* run_simulation runs in one thread that takes its next step whenever it  *)
(* has one: the run under weak fairness of Next.                           *)
(***************************************************************************)
FairSpec == Spec /\ WF_vars(Next)

(***************************************************************************)
(* Lines 300-311: run_all runs the same (policy, device count, cfg) again. *)
(***************************************************************************)
MaxIterations == 2      \* run_all's iterations argument: the runs of one group

\* "for _ in range(iterations)": the run has returned; its dict goes onto
\* pol_results and run_simulation is called once more (lines 137-157)
RunAgain ==
    /\ pc = "done"
    /\ Len(pol_results) + 1 < MaxIterations
    /\ pol_results' = Append(pol_results, result)
    /\ generator' = Seeded(Len(pol_results) + 2)
    /\ edge_servers' = [i \in ServerIds |-> NewEdgeServer(cfg.max_edge_queue)]
    /\ call' = Called("__init__", 0, 0, "None", FALSE)
    /\ results' = [service_times |-> <<>>, energies |-> <<>>, deadline_met |-> <<>>,
                   failed |-> 0, local |-> 0, edge |-> 0, cloud |-> 0, edge_rejected |-> 0]
    /\ device_apps' = <<>>
    /\ gen' = [d |-> 0, started |-> FALSE, t |-> 0]
    /\ events' = {}
    /\ cur' = NoEvent
    /\ est' = NoEstimates
    /\ decision' = "None"
    /\ result' = "None"
    /\ pc' = "assign"
    /\ UNCHANGED policy

\* run_all with one policy of POLICIES
RunAllInit == RunInit /\ policy = "EDGE_ONLY"

RunAllNext ==
    \/ Next
    \/ RunAgain

RunAllSpec == RunAllInit /\ [][RunAllNext]_vars


(***************************************************************************)
(* run_simulation while another run_simulation of the same process (a      *)
(* worker thread) takes its own steps: both use the functions of module    *)
(* random, that is, the one generator of the process.                      *)
(***************************************************************************)
MaxOtherDraws == 2      \* the other run draws only while generator.drawn is below this

\* lines 137-138 of the other run
OtherRunSeeds ==
    /\ generator' = Seeded(0)
    /\ UNCHANGED <<edge_servers, call, pc, policy, device_apps, gen, events, cur, est,
                   decision, results, result, pol_results>>

\* a random.random() of the other run (lines 149-165, 197, 249-275)
OtherRunDraws ==
    /\ generator.drawn < MaxOtherDraws
    /\ generator' = Drawn(1)
    /\ UNCHANGED <<edge_servers, call, pc, policy, device_apps, gen, events, cur, est,
                   decision, results, result, pol_results>>

ThreadsNext ==
    \/ Next
    \/ OtherRunSeeds
    \/ OtherRunDraws

ThreadsSpec == RunInit /\ [][ThreadsNext]_vars

(***************************************************************************)
(* The decision and assignment functions on their own: the inputs are      *)
(* drawn at the start, and each step applies one function to them.  est    *)
(* holds the three estimated times, cur the deadline, call the sample r    *)
(* and the function applied, decision and device_apps what it returned.    *)
(***************************************************************************)
MaxEstimate == 3
EstimateGrid == 0..MaxEstimate
DeadlineGrid == 0..(MaxEstimate + 1)

\* r = random.random() * 100 lies in [0, 100); the whole samples stand for it
Samples == {r \in 0..100 : r < 100}

\* energy_aware_simulation.py lines 79-84: usage_percentage of APPLICATION_TYPES
APPLICATION_TYPES == <<30, 25, 25, 20>>

\* energy_aware_simulation.py lines 352-361: the same walk over APPLICATION_TYPES
RECURSIVE WalkApplicationTypes(_, _, _)
WalkApplicationTypes(r, cumulative, i) ==
    IF i > Len(APPLICATION_TYPES) THEN 0
    ELSE IF r <= cumulative + APPLICATION_TYPES[i] THEN i
    ELSE WalkApplicationTypes(r, cumulative + APPLICATION_TYPES[i], i + 1)

\* min(d, key=d.get) over the dict d restricted to keys: the first key, in
\* the insertion order MOBILE, EDGE, CLOUD, among those of least value
MinOfDict(times, keys) ==
    LET order == <<"MOBILE", "EDGE", "CLOUD">>
        least == {i \in 1..3 : /\ order[i] \in keys
                               /\ \A k \in keys : times[order[i]] <= times[k]}
    IN  order[CHOOSE i \in least : \A j \in least : i <= j]

\* faulty variant of GreedyDeadlineAlgorithm.decide: the first location that
\* meets the deadline, not the fastest of them
GreedyDeadlineAlgorithmFirstFeasible(e, task) ==
    IF e.local_time <= task.deadline THEN "MOBILE"
    ELSE IF e.edge_time <= task.deadline THEN "EDGE"
    ELSE IF e.cloud_time <= task.deadline THEN "CLOUD"
    ELSE MinKey(e.local_time, e.edge_time, e.cloud_time)

\* energy_aware_simulation.py lines 222-243, given the three estimated times
GreedyDeadlineAlgorithmDecide(e, task) ==
    LET times == [MOBILE |-> e.local_time, EDGE |-> e.edge_time, CLOUD |-> e.cloud_time]
        deadline_options == {k \in DeviceType : times[k] <= task.deadline}
    IN  IF deadline_options # {}
        THEN MinOfDict(times, deadline_options)
        ELSE MinOfDict(times, DeviceType)

FunctionInit ==
    /\ pc = "functions"
    /\ est \in [local_time : EstimateGrid, edge_time : EstimateGrid, cloud_time : EstimateGrid]
    /\ cur \in [deadline : DeadlineGrid]
    /\ call \in [op : {"__init__"}, r : Samples]
    /\ decision = "None"
    /\ device_apps = <<>>
    /\ edge_servers = <<>>
    /\ policy = "None"
    /\ gen = "None"
    /\ events = {}
    /\ results = "None"
    /\ result = "None"
    /\ pol_results = <<>>
    /\ generator = [seeded_by |-> 0, drawn |-> 0]

Applied(op) ==
    /\ pc = "functions"
    /\ call.op = "__init__"
    /\ call' = [call EXCEPT !.op = op]
    /\ UNCHANGED <<edge_servers, pc, policy, gen, events, cur, est, results, result,
                   pol_results, generator>>

GreedyDeadlineCall ==
    /\ Applied("GREEDY_DEADLINE")
    /\ decision' = GreedyDeadlineDecision(est)
    /\ UNCHANGED device_apps

GreedyDeadlineAlgorithmCall ==
    /\ Applied("GreedyDeadlineAlgorithm.decide")
    /\ decision' = GreedyDeadlineAlgorithmDecide(est, cur)
    /\ UNCHANGED device_apps

AssignCall ==
    /\ Applied("run_simulation")
    /\ device_apps' = IF AppFor(call.r) = 0 THEN device_apps
                      ELSE (0 :> AppFor(call.r)) @@ device_apps
    /\ UNCHANGED decision

GenerateTasksAssignCall ==
    /\ Applied("generate_tasks")
    /\ device_apps' = IF WalkApplicationTypes(call.r, 0, 1) = 0 THEN device_apps
                      ELSE (0 :> WalkApplicationTypes(call.r, 0, 1)) @@ device_apps
    /\ UNCHANGED decision

FunctionNext ==
    \/ GreedyDeadlineCall
    \/ GreedyDeadlineAlgorithmCall
    \/ AssignCall
    \/ GenerateTasksAssignCall

FunctionSpec == FunctionInit /\ [][FunctionNext]_vars

(***************************************************************************)
(* Claims about EdgeServer, checked under ServerSpec.                      *)
(***************************************************************************)
Queue == Server.queued_processing_times

\* C1: the number of queued processing durations never exceeds max_queue, in
\* any state reachable by submit_task and update calls with any times and any
\* positive processing times.
C1_QueueWithinMax == Len(Queue) <= Server.max_queue

\* a submit_task attempted on a server whose queue is at a positive max_queue
C1_Witness ==
    /\ call.op = "submit_task"
    /\ Server.max_queue > 0
    /\ Len(Queue) = Server.max_queue

\* C2: can_accept_task() is false exactly when the queue length equals
\* max_queue, and a submit_task made in that state returns the rejection
\* signal (None, True) and leaves queue, next_available and total_busy_time
\* unchanged; the state being unchanged, so is every repetition.
C2_RejectionIsIdempotent ==
    /\ [](~CanAcceptTask(Server) <=> Len(Queue) = Server.max_queue)
    /\ [][(~CanAcceptTask(Server) /\ call'.op = "submit_task")
            => (/\ call'.failed
                /\ call'.ret = "None"
                /\ Server' = Server)]_vars

\* a rejected submit_task on a server that had admitted work before
C2_Witness ==
    /\ call.op = "submit_task"
    /\ call.failed
    /\ Server.total_busy_time > 0
    /\ ~CanAcceptTask(Server)

\* C3: a successful submit_task(now, p) returns estimate_wait_time(now) + p,
\* with estimate_wait_time taken on the state before the call, appends p at the
\* tail of the queue, sets next_available to now + total_time and adds exactly
\* p to total_busy_time.
C3_SubmitEffect ==
    [][(call'.op = "submit_task" /\ ~call'.failed)
        => (/\ call'.ret = EstimateWaitTime(Server, call'.time) + call'.p
            /\ Server'.queued_processing_times = Append(Queue, call'.p)
            /\ Server'.next_available = call'.time + call'.ret
            /\ Server'.total_busy_time = Server.total_busy_time + call'.p
            /\ Server'.max_queue = Server.max_queue)]_vars

\* a successful submit_task behind a queued task, at a time before next_available
C3_Witness ==
    /\ call.op = "submit_task"
    /\ ~call.failed
    /\ Len(Queue) = 2
    /\ call.ret > call.p + Queue[1]

(***************************************************************************)
(* The end-to-end scenario of the specification: one server, max queue     *)
(* depth 1, capacity 1000 instr/s, a 2000-instruction task (2.0 s of       *)
(* processing) submitted at t = 0, a second submit at t = 0.5 and          *)
(* estimate_wait_time(1.0).  One tick is 0.5 s here.                       *)
(***************************************************************************)
Scenario ==
    [max_queue |-> 1,
     processing_time |-> (2000 * 2) \div 1000,   \* 2.0 s
     first_submit |-> 0,                          \* t = 0
     second_submit |-> 1,                         \* t = 0.5
     probe |-> 2,                                 \* t = 1.0
     total_time |-> 4,                            \* 2.0 s
     next_available |-> 4,                        \* 2.0
     remaining |-> 2]                             \* 1.0 s

ScenarioFresh == Server = NewEdgeServer(Scenario.max_queue)

\* the state right after the first task was admitted at t = 0 on the fresh
\* server: nothing else was ever admitted (total_busy_time is that one task)
ScenarioFirstAdmitted ==
    /\ Server.max_queue = Scenario.max_queue
    /\ Queue = <<Scenario.processing_time>>
    /\ Server.next_available = Scenario.first_submit + Scenario.processing_time
    /\ Server.total_busy_time = Scenario.processing_time

\* C4: in the scenario, the first submit succeeds with total_time = 2.0 and
\* next_available = 2.0, and the second submit at t = 0.5 is rejected because
\* the queue is already full.
C4_Scenario ==
    [][/\ (/\ ScenarioFresh
           /\ call'.op = "submit_task"
           /\ call'.time = Scenario.first_submit
           /\ call'.p = Scenario.processing_time)
          => (/\ ~call'.failed
              /\ call'.ret = Scenario.total_time
              /\ Server'.next_available = Scenario.next_available
              /\ ScenarioFirstAdmitted')
       /\ (/\ ScenarioFirstAdmitted
           /\ call'.op = "submit_task"
           /\ call'.time = Scenario.second_submit)
          => (/\ call'.failed
              /\ call'.ret = "None"
              /\ Len(Queue) = Server.max_queue
              /\ Server' = Server)]_vars

\* the second submit of the scenario has been made and rejected
C4_Witness ==
    /\ ScenarioFirstAdmitted
    /\ call.op = "submit_task"
    /\ call.time = Scenario.second_submit
    /\ call.failed

\* C5: in the scenario, estimate_wait_time(1.0) returns 1.0, the remaining
\* time on the first task.
C5_ScenarioEstimate ==
    [][(/\ ScenarioFirstAdmitted
        /\ call'.op = "estimate_wait_time"
        /\ call'.time = Scenario.probe)
        => call'.ret = Scenario.remaining]_vars

\* C6: for a fixed time now, estimate_wait_time(now) never decreases across
\* successful or rejected submit_task(now, p) calls made without an update in
\* between.
C6_EstimateMonotone ==
    [][call'.op = "submit_task"
        => EstimateWaitTime(Server', call'.time)
             >= EstimateWaitTime(Server, call'.time)]_vars

\* a successful submit_task on a busy server that raised the estimate
C6_Witness ==
    /\ call.op = "submit_task"
    /\ ~call.failed
    /\ Len(Queue) >= 2
    /\ EstimateWaitTime(Server, call.time) > call.ret

\* C7: next_available and total_busy_time never decrease across submit_task
\* and update calls, and update changes neither.  The property holds for calls
\* at any times, so in particular for non-decreasing times.
C7_AvailAndBusyMonotone ==
    [][/\ Server'.next_available >= Server.next_available
       /\ Server'.total_busy_time >= Server.total_busy_time
       /\ call'.op = "update"
            => (/\ Server'.next_available = Server.next_available
                /\ Server'.total_busy_time = Server.total_busy_time)]_vars

\* an update that consumed part of the queue of a server with work pending
C7_Witness ==
    /\ call.op = "update"
    /\ Queue # <<>>
    /\ SumSeq(Queue) < Server.total_busy_time
    /\ Server.next_available > call.time

\* C20: get_utilization(now) is within [0, 100] in every state submit_task and
\* update lead to: 0 for now <= 0, and otherwise the lesser of 100 and the
\* percentage total_busy_time / now.
C20_UtilizationWithinRange ==
    \A now \in -1..MaxTime :
        LET u == GetUtilization(Server, now)
        IN  /\ u.den > 0
            /\ 0 <= u.num /\ u.num <= 100 * u.den
            /\ now <= 0 => u.num = 0
            /\ now > 0 => u.num * now = u.den * Min(100 * now, 100 * Server.total_busy_time)

\* get_utilization was called at a time the admitted work exceeds: the cap applied
C20_Witness ==
    /\ call.op = "get_utilization"
    /\ call.time > 0
    /\ Server.total_busy_time > call.time
    /\ call.ret = [num |-> 100, den |-> 1]

(***************************************************************************)
(* Claims about the run_simulation loop (specification Spec).              *)
(***************************************************************************)
\* the loop takes an event off the heap
Popped == pc = "pop" /\ events' # events

\* C8: events are handled in non-decreasing order of arrival time, and when an
\* event is taken every server is advanced to its time by update(t) before
\* the decision for it: the decision sees servers that update(t) has left.
C8_ArrivalOrder ==
    /\ [][Popped =>
            /\ cur.t <= cur'.t
            /\ \A e \in events' : cur'.t <= e.t
            /\ \A i \in ServerIds : edge_servers'[i] = Update(edge_servers[i], cur'.t)]_vars
    /\ [](pc = "decide" =>
            /\ call.op = "update" /\ call.time = cur.t
            /\ \A i \in ServerIds : Update(edge_servers[i], cur.t) = edge_servers[i])

\* a later event is up for decision after an earlier one was admitted to a
\* server, which still holds its work
C8_Witness ==
    /\ pc = "decide"
    /\ results.edge > 0
    /\ cur.t > cfg.warm_up_period
    /\ \E i \in ServerIds : edge_servers[i].queued_processing_times # <<>>

\* C9: every policy is total.  For the event up for decision and the servers
\* as they are, each of the five policies yields one of MOBILE, EDGE, CLOUD
\* whatever it draws, and the loop commits only what such a decision set.
C9_PoliciesTotal ==
    /\ [](pc = "decide" =>
            \A pol \in POLICIES, r \in PolicyDraws :
                PolicyDecision(pol, cur, Estimates(cur, edge_servers), edge_servers, r)
                    \in DeviceType)
    /\ [](pc = "commit" => decision \in DeviceType)
    /\ [][results' # results => pc = "commit" /\ decision \in DeviceType]_vars

\* EADC found every score infinite and fell back to the least time
C9_Witness ==
    /\ pc = "commit"
    /\ policy = "EADC"
    /\ LET scores == EADCScores(cur, est, edge_servers)
       IN  scores.MOBILE.inf /\ scores.EDGE.inf /\ scores.CLOUD.inf
    /\ decision \in DeviceType

\* C10: taking the decision changes no server.  From update(t) to the commit
\* the servers stay as they are, for every policy; a server changes only in
\* the pop step, by update(t), or in the commit step, where submit_task
\* admits the task to the best server and to no other.
C10_DecisionReadsOnly ==
    /\ [][pc = "decide" => edge_servers' = edge_servers]_vars
    /\ [][edge_servers' # edge_servers /\ ~Popped =>
            /\ pc = "commit" /\ decision = "EDGE"
            /\ call'.op = "submit_task" /\ ~call'.failed
            /\ \A i \in ServerIds \ {est.best_server_idx} :
                    edge_servers'[i] = edge_servers[i]
            /\ edge_servers'[est.best_server_idx] =
                    SubmitAdmitted(edge_servers[est.best_server_idx], cur.t,
                                   est.edge_processing).server]_vars

\* a decision was taken on servers that hold queued work, one of them full
C10_Witness ==
    /\ pc = "commit"
    /\ decision \in DeviceType
    /\ \E i \in ServerIds : ~CanAcceptTask(edge_servers[i])
    /\ \E i \in ServerIds : EstimateWaitTime(edge_servers[i], cur.t) > 0

\* the policy's decision for cur has been taken and is not yet carried out
Decided == pc = "commit" /\ policy = "EADC"

\* every estimated time of cur exceeds its deadline
AllMissDeadline ==
    /\ est.local_time > cur.deadline
    /\ est.edge_time > cur.deadline
    /\ est.cloud_time > cur.deadline

\* C11: EADC returns a location of infinite score only when all three scores
\* are infinite, and then the location it returns is one whose time, as the
\* fallback takes it, is finite.
C11_InfiniteOnlyInFallback ==
    Decided =>
        /\ decision \in DeviceType
        /\ LET scores == EADCScores(cur, est, edge_servers)
           IN  scores[decision].inf =>
                   /\ scores.MOBILE.inf /\ scores.EDGE.inf /\ scores.CLOUD.inf
                   /\ ~FallbackTimes(est, edge_servers)[decision].inf

\* all three scores are infinite, the best server is full and its edge time
\* is the least of the three times
C11_Witness ==
    /\ Decided
    /\ AllMissDeadline
    /\ ~CanAcceptTask(edge_servers[est.best_server_idx])
    /\ est.edge_time < est.local_time /\ est.edge_time < est.cloud_time
    /\ decision # "EDGE"

TimeOf(e, d) ==
    IF d = "MOBILE" THEN e.local_time
    ELSE IF d = "EDGE" THEN e.edge_time ELSE e.cloud_time

\* C12 as stated: under EADC an event whose three estimated times all exceed
\* its deadline gets the location of least estimated time among the three.
C12_FallbackLeastOfThree ==
    Decided /\ AllMissDeadline =>
        /\ decision \in DeviceType
        /\ \A d \in DeviceType : TimeOf(est, decision) <= TimeOf(est, d)

\* C12 amended: it gets the location of least estimated time among MOBILE,
\* CLOUD and, when the best server can accept the task, EDGE.
C12_FallbackLeastAdmissible ==
    Decided /\ AllMissDeadline =>
        /\ decision \in DeviceType
        /\ decision = "EDGE" => CanAcceptTask(edge_servers[est.best_server_idx])
        /\ \A d \in DeviceType :
               \/ (d = "EDGE" /\ ~CanAcceptTask(edge_servers[est.best_server_idx]))
               \/ TimeOf(est, decision) <= TimeOf(est, d)

\* the fallback decided an event while the best server was full
C12_Witness ==
    /\ Decided
    /\ AllMissDeadline
    /\ ~CanAcceptTask(edge_servers[est.best_server_idx])
    /\ decision = "MOBILE"

\* the best server, as the estimates chose it, cannot take the task
BestIsFull == ~CanAcceptTask(edge_servers[est.best_server_idx])

\* the commit step finds the decision EDGE and the best server full
Rejected == pc = "commit" /\ decision = "EDGE" /\ BestIsFull

\* the step records the task as run at CLOUD: the counters, and either the
\* failure alone or the samples of the cloud time and energy under some jitter
RunAtCloud ==
    /\ decision' = "CLOUD"
    /\ results'.cloud = results.cloud + 1
    /\ results'.edge = results.edge
    /\ results'.local = results.local
    /\ \/ /\ results'.failed = results.failed + 1
          /\ results'.service_times = results.service_times
          /\ results'.energies = results.energies
       \/ /\ results'.failed = results.failed
          /\ \E jt \in TimeJitterDraws :
                results'.service_times = Append(results.service_times, est.cloud_time * jt)
          /\ \E je \in EnergyJitterDraws :
                results'.energies = Append(results.energies, est.cloud_energy * je)

RejectionRerouted ==
    Rejected =>
        /\ RunAtCloud
        /\ results'.edge_rejected = results.edge_rejected + 1
        /\ edge_servers' = edge_servers

\* C13 as stated: a rejected EDGE decision is run at CLOUD, counted once as
\* cloud and once as edge-rejected, with no server changed; and whenever a
\* full queue keeps a task off the edge, by the re-route or by a policy that
\* turns to CLOUD because the best server is full, the rejection is counted.
C13_EveryDiversionCounted ==
    /\ [][RejectionRerouted]_vars
    /\ [][pc = "commit" /\ BestIsFull /\ (decision = "EDGE" \/ policy = "EDGE_ONLY")
            => results'.edge_rejected = results.edge_rejected + 1]_vars

\* C13 amended: the same for the rejected EDGE decision; and no task whose
\* decision is EDGE runs elsewhere without the rejection being counted, nor
\* is a rejection counted for any other task.
C13_RejectionCounted ==
    /\ [][RejectionRerouted]_vars
    /\ [][pc = "commit" /\ decision = "EDGE" /\ decision' # "EDGE"
            => results'.edge_rejected = results.edge_rejected + 1]_vars
    /\ [][results'.edge_rejected # results.edge_rejected => Rejected]_vars

\* a re-routed task was counted, and the server that refused it still holds
\* the work it held
C13_Witness ==
    /\ pc = "pop"
    /\ decision = "CLOUD"
    /\ results.edge_rejected > 0
    /\ results.cloud > 0
    /\ results.edge > 0
    /\ BestIsFull

\* C14: a task that arrives before the warm-up period leaves no statistics
\* but is still decided, so that an EDGE decision for it is admitted to a
\* server: the loop goes on to the decision for the event it has popped.
C14_WarmUpStillDecided ==
    [][Popped /\ cur'.t < cfg.warm_up_period =>
            /\ results' = results
            /\ pc' = "decide"]_vars

\* C15: a task for which the failure draw fires contributes to the failure
\* counter only: the step that counts the failure adds no sample and changes
\* no other counter of results.
C15_FailureCountsOnly ==
    [][pc = "commit" /\ results'.failed = results.failed + 1 =>
            results' = [results EXCEPT !.failed = @ + 1]]_vars

(***************************************************************************)
(* Claims about repeated runs (specification RunAllSpec).                  *)
(***************************************************************************)
\* C16: a run is determined by its policy, device count, configuration and
\* seed: a second run with the same arguments, on fresh servers, returns the
\* dict the first run returned.  run_simulation takes no seed and reseeds both
\* generators from the system's entropy (lines 137-138), so whatever seed the
\* caller set before the call, the run's draws are open.
C16_SameArgumentsSameResult ==
    pc = "done" /\ pol_results # <<>> => result = pol_results[1]

(***************************************************************************)
(* Claims about the policies compared (specification Spec).                *)
(***************************************************************************)
\* the deadline rates a RANDOM run can return for a stream of the one counted
\* task ev, from fresh servers: the best server takes the task, and the rate
\* is 1 if the task is recorded within its deadline and 0 otherwise
RandomRunRates(ev) ==
    LET e == Estimates(ev, [i \in ServerIds |-> NewEdgeServer(cfg.max_edge_queue)])
    IN  {IF ~fails /\ TimeOf(e, RandomDecision(r)) * jt <= ev.deadline * 100
         THEN 1 ELSE 0 :
            r \in PolicyDraws, jt \in TimeJitterDraws, fails \in FailureDraws}

\* the run has returned and counted one task, cur, its last event
OneTaskRun == pc = "done" /\ result.total_tasks = 1 /\ cur.t >= cfg.warm_up_period

\* C17 as stated: on the same task stream from the same server state, the
\* deadline rate of a GREEDY_DEADLINE run is at least that of a RANDOM run,
\* whatever the jitter, failure and random-choice outcomes of either run.
C17_GreedyRateAtLeastRandom ==
    OneTaskRun /\ policy = "GREEDY_DEADLINE" =>
        \A rate \in RandomRunRates(cur) :
            result.deadline_rate.num >= rate * result.deadline_rate.den

\* C17 amended: for the same task on the same server state, the estimated
\* time of the location GREEDY_DEADLINE chooses is at most that of the
\* location RANDOM chooses, whatever RANDOM draws.
C17_GreedyTimeAtMostRandom ==
    pc = "decide" =>
        LET e == Estimates(cur, edge_servers)
        IN  \A r \in PolicyDraws :
                TimeOf(e, PolicyDecision("GREEDY_DEADLINE", cur, e, edge_servers, r))
                    <= TimeOf(e, PolicyDecision("RANDOM", cur, e, edge_servers, r))

\* a task is up for decision on servers that hold work, and the three
\* estimated times differ
C17_Witness ==
    /\ pc = "decide"
    /\ \E i \in ServerIds : edge_servers[i].queued_processing_times # <<>>
    /\ LET e == Estimates(cur, edge_servers)
       IN  /\ e.edge_queue_delay > 0
           /\ e.edge_time < e.local_time
           /\ e.edge_time < e.cloud_time

(***************************************************************************)
(* Claims about the configuration (specification ZeroQueueSpec).           *)
(***************************************************************************)
\* the servers were built from a configuration of non-positive queue capacity
InvalidCapacity == \E i \in ServerIds : edge_servers[i].max_queue <= 0

\* C18: an invalid configuration is refused before the run starts: no event
\* is generated or processed and no result is returned for it.
C18_InvalidConfigRefused ==
    InvalidCapacity =>
        /\ events = {}
        /\ cur = NoEvent
        /\ pc \notin {"decide", "commit", "done"}

(***************************************************************************)
(* Claims about concurrent runs (specification ThreadsSpec).               *)
(***************************************************************************)
\* the number of the run in hand within its group
RunId == Len(pol_results) + 1

\* a step of the run in hand
RunSteps ==
    <<pc, gen, events, device_apps, decision, results>>'
        # <<pc, gen, events, device_apps, decision, results>>

\* C19: runs share no mutable state.  A run starts on fresh servers, and the
\* random stream it draws from is its own: the generator is as the run's own
\* seeding and draws left it, so that only the run's own steps move it and
\* every value the run draws comes from the run's own seeding.
C19_RunsShareNothing ==
    /\ [](pc = "assign" =>
            \A i \in ServerIds : edge_servers[i] = NewEdgeServer(cfg.max_edge_queue))
    /\ [][generator' # generator => RunSteps /\ generator.seeded_by = RunId]_vars

(***************************************************************************)
(* The FIFO reference for update: the admitted work, given as the sequence *)
(* of admissions [at, p] in admission order, is served one duration after  *)
(* another, each starting when it was admitted or when the one before it   *)
(* finished, whichever is later.                                           *)
(***************************************************************************)
RECURSIVE FifoRemainder(_, _, _)
FifoRemainder(admitted, free, now) ==
    IF admitted = <<>>
    THEN <<>>
    ELSE LET start == Max(Head(admitted).at, free)
             finish == start + Head(admitted).p
             rest == FifoRemainder(Tail(admitted), finish, now)
         IN  IF finish <= now THEN rest
             ELSE IF start < now THEN <<finish - now>> \o rest
             ELSE <<Head(admitted).p>> \o rest

\* the server after submit_task was called for each admission in turn
RECURSIVE Admit(_, _)
Admit(s, admitted) ==
    IF admitted = <<>>
    THEN s
    ELSE Admit(SubmitTask(s, Head(admitted).at, Head(admitted).p).server,
               Tail(admitted))

\* work admitted at t = 0 on a fresh server, up to a full queue
AdmittedAtZero(max_queue) ==
    UNION {[1..n -> [at : {0}, p : ProcTimes]] : n \in 1..max_queue}

\* C21: update(now) leaves the queue equal to the FIFO remainder of the
\* admitted work: durations fully elapsed by now are removed from the head, the
\* duration inside which now falls is reduced by the part already served, later
\* durations are untouched, for queues holding any number of entries.  (A
\* server in the state Admit leaves it in has admitted exactly that work, all
\* of it by the time the first duration ended.)
C21_UpdateLeavesFifoRemainder ==
    [][\A admitted \in AdmittedAtZero(Server.max_queue) :
          (/\ Server = Admit(NewEdgeServer(Server.max_queue), admitted)
           /\ call'.op = "update")
          => Queue' = FifoRemainder(admitted, 0, call'.time)]_vars

\* C22: under EADC the decision is never EDGE when the best edge server cannot
\* accept the task, whether some location has a finite score or all three are
\* infinite and the fallback decides; and the edge-rejection count of an EADC
\* run stays at zero.
C22_AdaptiveNeverPicksFullEdge ==
    policy = "EADC" =>
        /\ (pc = "commit" /\ BestIsFull => decision # "EDGE")
        /\ results.edge_rejected = 0
        /\ (pc = "done" => result.edge_rejected = 0)

\* the best server is full while the edge time meets the deadline and is the
\* least of the three, and EADC decided for another location
C22_Witness ==
    /\ Decided
    /\ BestIsFull
    /\ est.edge_time <= cur.deadline
    /\ est.edge_time < est.local_time /\ est.edge_time < est.cloud_time
    /\ decision \in {"MOBILE", "CLOUD"}

LeastTimeFirst(d) ==
    /\ d \in DeviceType
    /\ TimeOf(est, d) <= est.local_time
    /\ TimeOf(est, d) <= est.edge_time
    /\ TimeOf(est, d) <= est.cloud_time
    /\ d = "EDGE" => est.local_time > est.edge_time
    /\ d = "CLOUD" => est.local_time > est.cloud_time /\ est.edge_time > est.cloud_time

\* C24: GREEDY_DEADLINE returns a location of least estimated time, ties going
\* to MOBILE, then EDGE, then CLOUD, whatever the deadline; and
\* GreedyDeadlineAlgorithm.decide, which first keeps the locations that meet
\* the deadline, returns that same location for all times and deadlines.
C24_GreedyDeadlineLeastTime ==
    /\ call.op = "GREEDY_DEADLINE" => LeastTimeFirst(decision)
    /\ call.op = "GreedyDeadlineAlgorithm.decide" =>
          /\ LeastTimeFirst(decision)
          /\ decision = GreedyDeadlineDecision(est)

\* decide has dropped the first location in the order as too slow for the
\* deadline and kept two of equal time
C24_Witness ==
    /\ call.op = "GreedyDeadlineAlgorithm.decide"
    /\ est.local_time > cur.deadline
    /\ est.edge_time = est.cloud_time
    /\ est.edge_time <= cur.deadline
    /\ decision = "EDGE"

\* the cumulative share boundary of the i-th of the shares
RECURSIVE Boundary(_, _)
Boundary(shares, i) == IF i = 0 THEN 0 ELSE Boundary(shares, i - 1) + shares[i]

\* the device got exactly one profile, the first in declaration order whose
\* boundary the sample r is at or under
FirstUnderBoundary(shares, r) ==
    /\ DOMAIN device_apps = {0}
    /\ device_apps[0] \in 1..Len(shares)
    /\ r <= Boundary(shares, device_apps[0])
    /\ \A j \in 1..(device_apps[0] - 1) : r > Boundary(shares, j)

\* C25: every device is assigned to exactly one application profile: for every
\* sample r in [0, 100) it gets the first profile, in declaration order, whose
\* cumulative share boundary r is at or under, and with shares that sum to 100
\* no device is left without a profile; in run_simulation and in generate_tasks.
C25_OneProfilePerDevice ==
    LET usage_pct == [i \in 1..Len(APPS) |-> APPS[i].usage_pct]
    IN  /\ call.op = "run_simulation" =>
              /\ Boundary(usage_pct, Len(usage_pct)) = 100
              /\ FirstUnderBoundary(usage_pct, call.r)
        /\ call.op = "generate_tasks" =>
              /\ Boundary(APPLICATION_TYPES, Len(APPLICATION_TYPES)) = 100
              /\ FirstUnderBoundary(APPLICATION_TYPES, call.r)

\* the largest sample was assigned the last profile
C25_Witness ==
    /\ call.op = "run_simulation"
    /\ \A r \in Samples : r <= call.r
    /\ 0 \in DOMAIN device_apps
    /\ device_apps[0] = Len(APPS)

AfterUpdate(now) == call.op = "update" /\ call.time = now

Submits == pc = "commit" /\ call'.op = "submit_task"

\* C27: in the loop submit_task never returns the rejection: it is called
\* only for an EDGE decision whose best server can_accept_task() found free,
\* on that server as the decision saw it, and it admits the task; so the
\* failed count goes up only with the failure draw, one more than the two
\* jitter draws of the step, never by the branch for a failed submit.
C27_SubmitNeverRejected ==
    /\ [][Submits =>
            /\ decision = "EDGE"
            /\ CanAcceptTask(edge_servers[est.best_server_idx])
            /\ ~call'.failed
            /\ call'.time = cur.t
            /\ edge_servers'[est.best_server_idx]
                 = SubmitAdmitted(edge_servers[est.best_server_idx], cur.t, call'.p).server]_vars
    /\ [][pc = "commit" /\ edge_servers' # edge_servers => Submits]_vars
    /\ [][pc = "commit" /\ results'.failed # results.failed =>
            /\ results'.failed = results.failed + 1
            /\ generator'.drawn = generator.drawn + 3
            /\ results'.local + results'.edge + results'.cloud
                 = results.local + results.edge + results.cloud + 1]_vars

\* a task admitted to the edge by submit_task was failed by the draw
C27_Witness ==
    /\ pc = "pop"
    /\ call.op = "submit_task"
    /\ ~call.failed
    /\ decision = "EDGE"
    /\ results.failed > 0
    /\ results.edge = results.failed
    /\ results.local + results.cloud = 0

\* the tasks the run has accounted for: recorded samples plus failed tasks
Handled == Len(results.service_times) + results.failed

\* the events at or after the warm-up period still to be accounted for: those
\* on the heap and the one popped and not yet committed
Pending ==
    Cardinality({e \in events : e.t >= cfg.warm_up_period})
        + (IF pc \in {"decide", "commit"} THEN 1 ELSE 0)

\* C28: at the end of every run total_tasks (recorded samples plus failed
\* tasks) equals local + edge + cloud and equals the number of events that
\* arrived at or after the warm-up period, and edge_rejected is at most cloud.
\* Nothing is accounted for while the events are generated, and from then on
\* every step keeps the sum of tasks accounted for and events still to come.
C28_CountersConsistent ==
    /\ [](pc \in {"assign", "generate"} => Handled = 0)
    /\ [][(pc \in {"pop", "decide", "commit"})
            => (Handled' + Pending' = Handled + Pending)]_vars
    /\ [](pc \in {"pop", "decide", "done"} =>
            /\ Handled = results.local + results.edge + results.cloud
            /\ results.edge_rejected <= results.cloud)
    /\ [](pc = "done" =>
            /\ Pending = 0
            /\ result.total_tasks = Handled
            /\ result.total_tasks = result.local + result.edge + result.cloud
            /\ result.edge_rejected <= result.cloud)

\* a run is over in which two tasks ran at the edge, a third was re-routed to
\* the cloud and one of the three failed
C28_Witness ==
    /\ pc = "done"
    /\ result.total_tasks = 3
    /\ result.failed_tasks = 1
    /\ result.edge_rejected = 1
    /\ result.edge = 2
    /\ result.cloud = 1

\* C29: for every task run at EDGE the service time before jitter, the
\* round-trip wireless delay plus the total_time submit_task returns, equals
\* the edge time estimated for that event, and the server it is submitted to
\* is the one of least estimate_wait_time at the event's time, the lowest
\* index among equals: the server of the estimate and of can_accept_task().
C29_EdgeServiceAsEstimated ==
    [][Submits =>
        LET idx == est.best_server_idx
        IN  /\ \A j \in ServerIds :
                  \/ EstimateWaitTime(edge_servers[idx], cur.t)
                       < EstimateWaitTime(edge_servers[j], cur.t)
                  \/ /\ EstimateWaitTime(edge_servers[idx], cur.t)
                          = EstimateWaitTime(edge_servers[j], cur.t)
                     /\ idx <= j
            /\ est.edge_queue_delay = EstimateWaitTime(edge_servers[idx], cur.t)
            /\ CanAcceptTask(edge_servers[idx])
            /\ \A j \in ServerIds \ {idx} : edge_servers'[j] = edge_servers[j]
            /\ edge_servers'[idx] # edge_servers[idx]
            /\ est.wlan_delay * 2 + call'.ret = est.edge_time
            /\ results'.failed = results.failed =>
                  \E jt \in TimeJitterDraws :
                      results'.service_times
                          = Append(results.service_times, est.edge_time * jt)]_vars

\* a task was admitted to the second server, whose wait was the shorter, and
\* waits there behind queued work
C29_Witness ==
    /\ pc = "pop"
    /\ call.op = "submit_task"
    /\ est.best_server_idx > 0
    /\ est.edge_queue_delay > 0
    /\ call.ret = est.edge_queue_delay + est.edge_processing
    /\ Len(results.service_times) > 0

(***************************************************************************)
(* Claims about termination (specification FairSpec).                      *)
(***************************************************************************)
\* C30: every run terminates.  Generation adds one event at a time, at the
\* device's time t below the horizon, and moves t on by at least 0.05 (MinGap),
\* so the arrivals of a device are at least that far apart and all below the
\* horizon; the processing loop takes exactly one event off the heap per
\* iteration and adds none; and in the end the heap is empty and the result
\* is returned.
C30_RunTerminates ==
    /\ [][pc = "generate" /\ events' # events =>
            /\ \E e \in events' : events' = events \cup {e} /\ e \notin events
                                  /\ e.t = gen.t /\ e.d = gen.d
            /\ gen.t < cfg.simulation_time
            /\ gen'.d = gen.d
            /\ gen'.t >= gen.t + MinGap]_vars
    /\ [](\A a \in events :
            /\ a.t < cfg.simulation_time
            /\ \A b \in events : a.d = b.d /\ a.t < b.t => b.t >= a.t + MinGap)
    /\ [][(pc \in {"pop", "decide", "commit"}) =>
            /\ events' \subseteq events
            /\ pc = "pop" /\ pc' # "done" => Cardinality(events') = Cardinality(events) - 1
            /\ pc # "pop" => events' = events]_vars
    /\ [](pc = "done" => events = {} /\ result.policy = policy)
    /\ <>(pc = "done")

\* a run is over that generated and handled three events, one at each location
C30_Witness ==
    /\ pc = "done"
    /\ events = {}
    /\ result.local = 1
    /\ result.edge = 1
    /\ result.cloud = 1
    /\ generator.drawn > 12

=============================================================================
